---- MODULE Spec2Model ----
(***************************************************************************)
(* Model of road_flood_risk_map: the DEM helpers of common.py               *)
(* (compute_d8_direction, fill_depression) and the two image retrieval      *)
(* methods of RoadFloodRiskMap (road_flood_risk_map.py).                    *)
(*                                                                         *)
(* Three specifications share the variables:                               *)
(*   SpecD8   - compute_d8_direction applied to a bounded family of grids   *)
(*   SpecFill - fill_depression run statement by statement                  *)
(*   SpecClip - calls of retrieve_*_data_clip with every kind of file name  *)
(***************************************************************************)
EXTENDS Integers, Sequences, FiniteSets, TLC

VARIABLES rows, cols, dem, pc, d8_direction, i, j, open_pq, pits, closed_set,
          pushed, calls, exported, saved, printed, last

vars == <<rows, cols, dem, pc, d8_direction, i, j, open_pq, pits, closed_set,
          pushed, calls, exported, saved, printed, last>>

----------------------------------------------------------------------------
(* Bounds of the model *)

\* grids have 1..MaxRows rows
MaxRows == 3
\* grids have 1..MaxCols columns
MaxCols == 3
\* valid elevations are 0..MaxElev
MaxElev == 2
\* at most MaxVaried cells of a grid differ from the background elevation
MaxVaried == 2
\* at most MaxCalls retrieval calls are made in a run of SpecClip
MaxCalls == 3

----------------------------------------------------------------------------
(* Grids *)

\* the nodata value tested in compute_d8_direction
NoData == -9999

\* the value stored for a cell without direction
NoDirection == -1

Cells(R, C) == (0 .. R - 1) \X (0 .. C - 1)

Elevations == (0 .. MaxElev) \cup {NoData}

Background == MaxElev \div 2

\* every grid of the shape R x C in which at most MaxVaried cells differ from
\* the background elevation
Grids(R, C) ==
    LET spots == {S \in SUBSET Cells(R, C) : Cardinality(S) <= MaxVaried}
        marks == UNION {[S -> Elevations \ {Background}] : S \in spots}
    IN  {[c \in Cells(R, C) |-> IF c \in DOMAIN m THEN m[c] ELSE Background]
            : m \in marks}

\* dem[ni, nj] as numpy reads it: a negative index counts from the end
At(g, R, C, ni, nj) ==
    g[<<IF ni < 0 THEN ni + R ELSE ni, IF nj < 0 THEN nj + C ELSE nj>>]

----------------------------------------------------------------------------
(* compute_d8_direction *)

\* the dict direction_code in its iteration order; each value is unpacked
\* as (dj, di) by the loop that reads it
direction_code ==
    << [k |-> 32,  dj |-> -1, di |-> -1],
       [k |-> 64,  dj |-> 0,  di |-> -1],
       [k |-> 128, dj |-> 1,  di |-> -1],
       [k |-> 1,   dj |-> 1,  di |-> 0],
       [k |-> 2,   dj |-> 1,  di |-> 1],
       [k |-> 4,   dj |-> 0,  di |-> 1],
       [k |-> 8,   dj |-> -1, di |-> 1],
       [k |-> 16,  dj |-> -1, di |-> 0] >>

Codes == {direction_code[n].k : n \in DOMAIN direction_code}

\* -np.inf, the initial maximum_drop
NegInf == [inf |-> TRUE, dz |-> 0, d2 |-> 1]

\* drop = change_in_z / distance * 100 with distance = sqrt(di**2 + dj**2),
\* kept exact as the pair (change_in_z, distance squared); 0 when distance = 0
Drop(elev, nelev, di, dj) ==
    LET d2 == di * di + dj * dj
    IN  IF d2 # 0 THEN [inf |-> FALSE, dz |-> elev - nelev, d2 |-> d2]
                  ELSE [inf |-> FALSE, dz |-> 0, d2 |-> 1]

\* a / sqrt(p) * 100 > b / sqrt(q) * 100 for integers a, b and p, q > 0,
\* decided by signs and squares (the common factor 100 cancels)
RealGreater(a, p, b, q) ==
    IF a > 0 THEN (b <= 0 \/ a * a * q > b * b * p)
    ELSE IF a = 0 THEN b < 0
    ELSE (b < 0 /\ a * a * q < b * b * p)

\* x > y on drops, -inf included
Greater(x, y) ==
    IF x.inf THEN FALSE
    ELSE IF y.inf THEN TRUE
    ELSE RealGreater(x.dz, x.d2, y.dz, y.d2)

\* if 0 <= ni < rows and 0 <= nj < cols
InBoundsNoLower(ni, nj, R, C) == ni < R /\ nj < C

InBounds(ni, nj, R, C) == 0 <= ni /\ ni < R /\ 0 <= nj /\ nj < C

\* if dem[i, j] == -9999
IsNoDataNever(v) == FALSE

IsNoData(v) == v = NoData

\* if drop > maximum_drop
ImprovesOrTies(drop, maximum_drop) == ~Greater(maximum_drop, drop)

Improves(drop, maximum_drop) == Greater(drop, maximum_drop)

\* one iteration of the loop over direction_code.items()
ScanStep(g, R, C, ci, cj, acc, e) ==
    LET ni == ci + e.di
        nj == cj + e.dj
    IN  IF InBounds(ni, nj, R, C)
        THEN LET drop == Drop(g[<<ci, cj>>], At(g, R, C, ni, nj), e.di, e.dj)
             IN  IF Improves(drop, acc.maximum_drop)
                 THEN [maximum_drop |-> drop, direction |-> e.k]
                 ELSE acc
        ELSE acc

RECURSIVE Scan(_, _, _, _, _, _)
\* the state of the loop after the first n entries of direction_code
Scan(g, R, C, ci, cj, n) ==
    IF n = 0 THEN [maximum_drop |-> NegInf, direction |-> NoDirection]
    ELSE ScanStep(g, R, C, ci, cj, Scan(g, R, C, ci, cj, n - 1), direction_code[n])

\* the body of the loops over i and j: the value stored in d8_direction[i, j]
CellDirection(g, R, C, ci, cj) ==
    IF IsNoData(g[<<ci, cj>>]) THEN NoDirection
    ELSE Scan(g, R, C, ci, cj, Len(direction_code)).direction

compute_d8_direction(g, R, C) ==
    [c \in Cells(R, C) |-> CellDirection(g, R, C, c[1], c[2])]

----------------------------------------------------------------------------
(* fill_depression *)

\* (elevation, (i, j)) < (elevation, (i, j)) as Python compares tuples
EntryLessElevOnly(a, b) == a[1] < b[1]

EntryLess(a, b) ==
    \/ a[1] < b[1]
    \/ /\ a[1] = b[1]
       /\ \/ a[2][1] < b[2][1]
          \/ a[2][1] = b[2][1] /\ a[2][2] < b[2][2]

RECURSIVE siftdown(_, _, _, _)
\* heapq._siftdown: move newitem from pos (0-based) towards startpos
siftdown(heap, startpos, pos, newitem) ==
    IF pos > startpos
    THEN LET parentpos == (pos - 1) \div 2
             parent == heap[parentpos + 1]
         IN  IF EntryLess(newitem, parent)
             THEN siftdown([heap EXCEPT ![pos + 1] = parent], startpos, parentpos, newitem)
             ELSE [heap EXCEPT ![pos + 1] = newitem]
    ELSE [heap EXCEPT ![pos + 1] = newitem]

\* heapq.heappush(open_pq, item)
heappush(heap, item) == siftdown(Append(heap, item), 0, Len(heap), item)

RECURSIVE siftupLoop(_, _, _)
\* the loop of heapq._siftup: bubble the smaller child up until a leaf
siftupLoop(heap, pos, endpos) ==
    LET childpos == 2 * pos + 1
        rightpos == childpos + 1
    IN  IF childpos < endpos
        THEN LET c == IF rightpos < endpos
                         /\ ~EntryLess(heap[childpos + 1], heap[rightpos + 1])
                      THEN rightpos ELSE childpos
             IN  siftupLoop([heap EXCEPT ![pos + 1] = heap[c + 1]], c, endpos)
        ELSE [heap |-> heap, pos |-> pos]

\* heapq._siftup(heap, pos)
siftup(heap, pos) ==
    LET newitem == heap[pos + 1]
        r == siftupLoop(heap, pos, Len(heap))
    IN  siftdown(r.heap, pos, r.pos, newitem)

\* heapq.heappop(open_pq): the item returned and the heap left
heappop(heap) ==
    LET lastelt == heap[Len(heap)]
        rest == SubSeq(heap, 1, Len(heap) - 1)
    IN  IF rest # <<>>
        THEN [item |-> rest[1], heap |-> siftup([rest EXCEPT ![1] = lastelt], 0)]
        ELSE [item |-> lastelt, heap |-> <<>>]

RECURSIVE PopOrder(_)
\* the entries in the order successive heappop calls return them
PopOrder(heap) ==
    IF heap = <<>> THEN <<>>
    ELSE LET p == heappop(heap) IN <<p.item>> \o PopOrder(p.heap)

\* where control goes when the loop over range(rows) ends
AfterRows == IF 1 < cols - 1 THEN "seed_cols" ELSE "loop"

\* one iteration of: for i in range(rows)
SeedRow ==
    /\ pc = "seed_rows"
    /\ i < rows
    /\ LET e1 == <<dem[<<i, 0>>], <<i, 0>>>>
           e2 == <<dem[<<i, cols - 1>>], <<i, cols - 1>>>>
       IN  /\ open_pq' = heappush(heappush(open_pq, e1), e2)
           /\ pushed' = pushed \o <<e1, e2>>
           /\ closed_set' = [closed_set EXCEPT ![<<i, 0>>] = TRUE,
                                               ![<<i, cols - 1>>] = TRUE]
    /\ i' = i + 1
    /\ pc' = IF i + 1 < rows THEN "seed_rows" ELSE AfterRows
    /\ j' = 1
    /\ UNCHANGED <<rows, cols, dem, d8_direction, pits, calls, exported, saved,
                   printed, last>>

\* one iteration of: for j in range(1, cols - 1)
SeedCol ==
    /\ pc = "seed_cols"
    /\ j < cols - 1
    /\ LET e1 == <<dem[<<0, j>>], <<0, j>>>>
           e2 == <<dem[<<rows - 1, j>>], <<rows - 1, j>>>>
       IN  /\ open_pq' = heappush(heappush(open_pq, e1), e2)
           /\ pushed' = pushed \o <<e1, e2>>
           /\ closed_set' = [closed_set EXCEPT ![<<0, j>>] = TRUE,
                                               ![<<rows - 1, j>>] = TRUE]
    /\ j' = j + 1
    /\ pc' = IF j + 1 < cols - 1 THEN "seed_cols" ELSE "loop"
    /\ UNCHANGED <<rows, cols, dem, d8_direction, i, pits, calls, exported,
                   saved, printed, last>>

\* while not open_pq.empty() or not pits.empty(): open_pq is a list, which
\* has no method empty, so the first evaluation of the test raises
\* AttributeError; the loop body and the return statement are never reached
LoopTest ==
    /\ pc = "loop"
    /\ pc' = "raised"
    /\ UNCHANGED <<rows, cols, dem, d8_direction, i, j, open_pq, pits,
                   closed_set, pushed, calls, exported, saved, printed, last>>

\* how a call of fill_depression(g) ends and the array it leaves
fill_depression(g) == [status |-> "raised", dem |-> g]

----------------------------------------------------------------------------
(* RoadFloodRiskMap.retrieve_alos_palsar_data_clip and                      *)
(* RoadFloodRiskMap.retrieve_sentinel_1_data_clip                           *)

\* strings are sequences of pieces, so that + is concatenation
None == [isNone |-> TRUE, s |-> <<>>]

Str(s) == [isNone |-> FALSE, s |-> s]

\* the values passed as output_file_name
FileNames == {None, Str(<<>>), Str(<<"dem">>), Str(<<"sar">>)}

\* '' as a str
EmptyStr == Str(<<>>)

\* if output_file_name != None or output_file_name != ''
AlosExportGuard(name) == name # None \/ name # EmptyStr

\* if output_file_name != None and output_file_name != ''
SentinelExportGuard(name) == name # None /\ name # EmptyStr

\* the value returned: <collection>.mean().clip(region_of_interest)
MeanClip(collection) == [collection |-> collection, reduce |-> "mean", clip |-> "roi"]

NoCall == [fn |-> "none", name |-> None, tried |-> FALSE, exportCalled |-> FALSE,
           newFile |-> FALSE, returned |-> MeanClip("none")]

\* the body shared by the two methods: the guarded try/except around
\* geemap.ee_export_image, then the return. exportOk chooses whether the
\* export saves the file or raises. Evaluating output_file_name + '.tif'
\* with None raises TypeError inside the try, before the export is called.
Retrieve(fn, collection, guard, name, exportOk) ==
    LET called == guard /\ ~name.isNone
        filename == name.s \o <<".tif">>
        wrote == called /\ exportOk
    IN  /\ calls < MaxCalls
        /\ calls' = calls + 1
        /\ exported' = IF called THEN exported \cup {filename} ELSE exported
        /\ saved' = IF wrote THEN saved \cup {filename} ELSE saved
        /\ printed' = IF guard /\ ~wrote THEN printed + 1 ELSE printed
        /\ last' = [fn |-> fn, name |-> name, tried |-> guard,
                    exportCalled |-> called, newFile |-> wrote,
                    returned |-> MeanClip(collection)]
        /\ UNCHANGED <<rows, cols, dem, pc, d8_direction, i, j, open_pq, pits,
                       closed_set, pushed>>

retrieve_alos_palsar_data_clip ==
    \E name \in FileNames, exportOk \in BOOLEAN :
        Retrieve("alos", "JAXA/ALOS/PALSAR/YEARLY/SAR_EPOCH:HH",
                 AlosExportGuard(name), name, exportOk)

retrieve_sentinel_1_data_clip ==
    \E name \in FileNames, exportOk \in BOOLEAN :
        Retrieve("sentinel", "COPERNICUS/S1_GRD:VH",
                 SentinelExportGuard(name), name, exportOk)

----------------------------------------------------------------------------
(* Specifications *)

\* d8_direction = np.zeros_like(dem, dtype=np.int32)
Zeros(R, C) == [c \in Cells(R, C) |-> 0]

\* closed_set = np.zeros((rows, cols), dtype=bool)
NoneClosed(R, C) == [c \in Cells(R, C) |-> FALSE]

InitGrid ==
    /\ rows \in 1 .. MaxRows
    /\ cols \in 1 .. MaxCols
    /\ dem \in Grids(rows, cols)
    /\ d8_direction = Zeros(rows, cols)
    /\ closed_set = NoneClosed(rows, cols)
    /\ i = 0
    /\ j = 1
    /\ open_pq = <<>>
    /\ pits = <<>>
    /\ pushed = <<>>
    /\ calls = 0
    /\ exported = {}
    /\ saved = {}
    /\ printed = 0
    /\ last = NoCall

InitD8 == InitGrid /\ pc = "start"

\* the call compute_d8_direction(dem)
ComputeD8 ==
    /\ pc = "start"
    /\ d8_direction' = compute_d8_direction(dem, rows, cols)
    /\ pc' = "done"
    /\ UNCHANGED <<rows, cols, dem, i, j, open_pq, pits, closed_set, pushed,
                   calls, exported, saved, printed, last>>

NextD8 == ComputeD8

SpecD8 == InitD8 /\ [][NextD8]_vars

InitFill == InitGrid /\ pc = "seed_rows"

NextFill == SeedRow \/ SeedCol \/ LoopTest

SpecFill == InitFill /\ [][NextFill]_vars

InitClip ==
    /\ rows = 1
    /\ cols = 1
    /\ dem = [c \in Cells(1, 1) |-> Background]
    /\ d8_direction = Zeros(1, 1)
    /\ closed_set = NoneClosed(1, 1)
    /\ i = 0
    /\ j = 1
    /\ open_pq = <<>>
    /\ pits = <<>>
    /\ pushed = <<>>
    /\ calls = 0
    /\ exported = {}
    /\ saved = {}
    /\ printed = 0
    /\ last = NoCall
    /\ pc = "idle"

NextClip == retrieve_alos_palsar_data_clip \/ retrieve_sentinel_1_data_clip

SpecClip == InitClip /\ [][NextClip]_vars

----------------------------------------------------------------------------
(* Properties of compute_d8_direction (SpecD8) *)

\* the n-th neighbour of cell c in the order of direction_code
Nb(c, n) == <<c[1] + direction_code[n].di, c[2] + direction_code[n].dj>>

Inside(p) == 0 <= p[1] /\ p[1] < rows /\ 0 <= p[2] /\ p[2] < cols

\* the neighbours of c that lie in the grid
Valid(c) == {n \in DOMAIN direction_code : Inside(Nb(c, n))}

\* those of them that hold an elevation
ValidData(c) == {n \in Valid(c) : dem[Nb(c, n)] # NoData}

NbDrop(c, n) ==
    Drop(dem[c], dem[Nb(c, n)], direction_code[n].di, direction_code[n].dj)

\* n has the greatest drop among N and is the first of N that has it
SteepestFirst(c, n, N) ==
    /\ n \in N
    /\ \A m \in N : ~Greater(NbDrop(c, m), NbDrop(c, n))
    /\ \A m \in N : m < n => Greater(NbDrop(c, n), NbDrop(c, m))

DataCells == {c \in Cells(rows, cols) : dem[c] # NoData}

\* C1: every cell that is not nodata gets one of the 8 codes, and the cell
\* the code points at lies in the grid; it gets NoDirection only in a 1x1
\* grid.
C1DirectionInBounds ==
    pc = "done" =>
        \A c \in DataCells :
            \/ d8_direction[c] = NoDirection /\ rows = 1 /\ cols = 1
            \/ \E n \in DOMAIN direction_code :
                   /\ d8_direction[c] = direction_code[n].k
                   /\ Inside(Nb(c, n))

\* a corner cell, which has only three neighbours in the grid, got a code
C1Witness ==
    /\ pc = "done"
    /\ rows > 1
    /\ cols > 1
    /\ dem[<<0, 0>>] # NoData
    /\ d8_direction[<<0, 0>>] \in Codes

\* C2: every nodata cell gets NoDirection, whatever its neighbours are.
C2NodataNoDirection ==
    pc = "done" =>
        \A c \in Cells(rows, cols) :
            dem[c] = NoData => d8_direction[c] = NoDirection

\* a nodata cell with a lower and a higher neighbour got NoDirection
C2Witness ==
    /\ pc = "done"
    /\ \E c \in Cells(rows, cols) :
           /\ dem[c] = NoData
           /\ d8_direction[c] = NoDirection
           /\ \E n, m \in ValidData(c) : dem[Nb(c, n)] < dem[Nb(c, m)]

\* C3: a nodata neighbour is no candidate: a cell that is not nodata and has
\* a neighbour with an elevation never points at a nodata cell, and gets the
\* direction it would get with the nodata neighbours absent.
C3NodataNeighbourExcluded ==
    pc = "done" =>
        \A c \in DataCells :
            ValidData(c) # {} =>
                \E n \in ValidData(c) :
                    /\ d8_direction[c] = direction_code[n].k
                    /\ SteepestFirst(c, n, ValidData(c))

\* C4: a cell that is not nodata gets the code of the neighbour in the grid
\* with the greatest drop (elevation difference over distance, 1 or sqrt 2);
\* among neighbours of equal greatest drop the first in the order
\* NW, N, NE, E, SE, S, SW, W wins.
C4SteepestFirstInOrder ==
    pc = "done" =>
        \A c \in DataCells :
            Valid(c) # {} =>
                \E n \in Valid(c) :
                    /\ d8_direction[c] = direction_code[n].k
                    /\ SteepestFirst(c, n, Valid(c))

\* a cell whose chosen orthogonal neighbour beats an earlier diagonal one of
\* the same positive elevation difference and ties with a later neighbour
C4Witness ==
    /\ pc = "done"
    /\ \E c \in DataCells :
           \E p, n, m \in Valid(c) :
               /\ p < n
               /\ n < m
               /\ d8_direction[c] = direction_code[n].k
               /\ NbDrop(c, p).d2 > NbDrop(c, n).d2
               /\ NbDrop(c, p).dz = NbDrop(c, n).dz
               /\ NbDrop(c, n).dz > 0
               /\ NbDrop(c, m) = NbDrop(c, n)

----------------------------------------------------------------------------
(* Properties of fill_depression (SpecFill) *)

IsBorder(c, R, C) == c[1] = 0 \/ c[1] = R - 1 \/ c[2] = 0 \/ c[2] = C - 1

\* the call has ended: by the return statement or by an exception
Finished == pc \in {"done", "raised"}

\* the seeding loops have ended
Seeded == pc \in {"loop", "done", "raised"}

\* every cell of the grid holds an elevation
AllData == \A c \in Cells(rows, cols) : dem[c] # NoData

\* C5: the call ends normally, with both queues empty and every cell closed.
C5FillTerminates ==
    Finished =>
        /\ pc = "done"
        /\ open_pq = <<>>
        /\ pits = <<>>
        /\ \A c \in Cells(rows, cols) : closed_set[c]

RECURSIVE DrainClosure(_)
\* the cells with a path of neighbours to a cell of S along which the
\* elevation never increases
DrainClosure(S) ==
    LET T == S \cup {c \in Cells(rows, cols) :
                        \E n \in Valid(c) :
                            Nb(c, n) \in S /\ dem[Nb(c, n)] <= dem[c]}
    IN  IF T = S THEN S ELSE DrainClosure(T)

BorderCells == {c \in Cells(rows, cols) : IsBorder(c, rows, cols)}

\* C6: in the grid the call leaves, every interior cell has a path of
\* neighbours to a border cell along which the elevation never increases
\* (stated for the grids without nodata cells).
C6MonotonicDrainage ==
    Finished /\ AllData => Cells(rows, cols) \subseteq DrainClosure(BorderCells)

\* C7: the call yields a grid, and a second call on that grid yields an
\* equal grid.
C7Idempotent ==
    Finished =>
        LET first == [status |-> pc, dem |-> dem]
            second == fill_depression(first.dem)
        IN  /\ first.status = "done"
            /\ second.status = "done"
            /\ second.dem = first.dem

\* the number of entries of the priority queue for cell c
Entries(c) == Cardinality({n \in DOMAIN open_pq : open_pq[n][2] = c})

\* C9: after seeding, the priority queue holds exactly one entry for each
\* border cell and none for an interior cell, and the closed cells are the
\* border cells (stated for the grids without nodata cells).
C9SeedOncePerBorderCell ==
    Seeded /\ AllData =>
        \A c \in Cells(rows, cols) :
            /\ Entries(c) = IF IsBorder(c, rows, cols) THEN 1 ELSE 0
            /\ closed_set[c] = IsBorder(c, rows, cols)

\* the position of the first push of entry e
FirstPush(e) == CHOOSE n \in DOMAIN pushed :
                    pushed[n] = e /\ \A m \in 1 .. n - 1 : pushed[m] # e

FillOutcomeAgrees ==
    Finished => fill_depression(dem) = [status |-> pc, dem |-> dem]

----------------------------------------------------------------------------
(* Properties of the retrieval methods (SpecClip) *)

\* C8: the export is called only with an output_file_name that is neither
\* None nor empty; with None nothing is exported or saved; the clipped mean
\* composite is returned in every case.
C8ExportOnlyWhenNamed ==
    last.fn # "none" =>
        /\ last.exportCalled => (last.name # None /\ last.name # EmptyStr)
        /\ last.name = None => (~last.exportCalled /\ ~last.newFile)
        /\ last.returned.reduce = "mean"
        /\ last.returned.clip = "roi"

====
